---- MODULE Spec2Model ----
(***************************************************************************)
(* A model of yumclone's mirror synchronisation: one (src, dst) pair of    *)
(* Config::sync (remote/local index, Cache::new, Cache::clone with the two *)
(* sync_all pools, replace_metadata, Mirror::clean) over an explicit       *)
(* target and scratch file system, and the driver loop over pairs and      *)
(* repositories.                                                           *)
(***************************************************************************)
EXTENDS Integers, Sequences, FiniteSets, TLC

(***************************************************************************)
(* Bounds of the model.                                                    *)
(***************************************************************************)
\* the longest body, in chunks, the server sends for one request
MaxBody == 2
\* pairs that UrlMux yields for one configured repository (driver model)
MaxPairs == 2
\* configured repositories (driver model)
MaxRepos == 2
\* the longest variant list of a tag (UrlMux model)
MaxVariants == 2

(***************************************************************************)
(* Paths.  A path is a directory and a file name; the file name is the     *)
(* sequence of its dot-separated parts, so that Path::with_extension is    *)
(* computed and not looked up.                                             *)
(***************************************************************************)
MkPath(d, nm) == [dir |-> d, name |-> nm]

MD_DIR == "repodata"
MD_PATH == MkPath(MD_DIR, <<"repomd", "xml">>)

\* Path::with_extension: the part after the last dot is replaced; a name
\* without a dot gets the extension appended.
with_extension(p, ext) ==
    [p EXCEPT !.name = (IF Len(@) > 1 THEN SubSeq(@, 1, Len(@) - 1) ELSE @) \o ext]

\* a variant of sync_file that downloads to the live path itself
InPlace(p) == p

\* sync_file's temp_path
TempPath(p) == with_extension(p, <<"sync", "tmp">>)

PRIMARY_XML == MkPath(MD_DIR, <<"primary", "xml">>)
PRIMARY_OLD == MkPath(MD_DIR, <<"primary-old", "xml">>)
DELTA_XML   == MkPath(MD_DIR, <<"delta", "xml">>)
OTHER_XML   == MkPath("meta", <<"other", "xml">>)
PKG_A       == MkPath("p", <<"a", "rpm">>)
PKG_B       == MkPath("p", <<"b", "rpm">>)
PKG_OLD     == MkPath("p", <<"old", "rpm">>)
DRPM_A      == MkPath("p", <<"a", "drpm">>)

MetaPaths == {MD_PATH, PRIMARY_XML, PRIMARY_OLD, DELTA_XML, OTHER_XML}
PkgPaths  == {PKG_A, PKG_B, PKG_OLD, DRPM_A}
LivePaths == MetaPaths \cup PkgPaths
AllPaths  == LivePaths \cup {TempPath(p) : p \in LivePaths}
Dirs      == {p.dir : p \in AllPaths}
\* a directory that may sit inside the target repodata/
SUB_DIR   == "repodata/sub"

(***************************************************************************)
(* Files.  A file is the data it holds (d), its length in chunks (n) and   *)
(* whether a writer still has it open (w).                                 *)
(***************************************************************************)
Absent == [d |-> "-", n |-> 0, w |-> FALSE]
Exists(f) == f.d # "-"
EmptyOpen == [d |-> "empty", n |-> 0, w |-> TRUE]
Whole(body) == [d |-> body.d, n |-> body.n, w |-> FALSE]
EmptyFs == [p \in AllPaths |-> Absent]

\* Option<T>
None == [some |-> FALSE]
Some(v) == [some |-> TRUE, v |-> v]

(***************************************************************************)
(* repo.rs: the repository index (repomd.xml).                             *)
(***************************************************************************)
Datum(t, h) == [datum |-> t, href |-> h]
MkRepo(rev, data) == [revision |-> rev, data |-> data]

\* a variant of the comparison as #[derive(PartialEq)] on the revision would
\* make it
RevisionsEqual(this, that) == this.revision = that.revision

\* impl PartialEq for Repo
RepoEq(this, that) ==
    IF this.revision.some /\ that.revision.some
    THEN this.revision.v = that.revision.v
    ELSE FALSE

\* Repo::meta_files
meta_files(repo) == <<MD_PATH>> \o [i \in 1..Len(repo.data) |-> repo.data[i].href]

SeqRange(s) == {s[i] : i \in 1..Len(s)}

\* a variant that returns the last datum of that type
last_subsection_path(repo, section) ==
    LET hits == {i \in 1..Len(repo.data) : repo.data[i].datum = section}
    IN  IF hits = {} THEN None
        ELSE Some(repo.data[CHOOSE i \in hits : \A j \in hits : i >= j].href)

\* Repo::subsection_path: the first datum of that type
subsection_path(repo, section) ==
    LET hits == {i \in 1..Len(repo.data) : repo.data[i].datum = section}
    IN  IF hits = {} THEN None
        ELSE Some(repo.data[CHOOSE i \in hits : \A j \in hits : i <= j].href)

primary_path(repo) == subsection_path(repo, "primary")
prestodelta_path(repo) == subsection_path(repo, "prestodelta")

(***************************************************************************)
(* package.rs: work items and the payload lists.                           *)
(***************************************************************************)
Item(h, sz, sd, sn) == [href |-> h, size |-> sz, sum |-> [d |-> sd, n |-> sn]]
IT_A   == Item(PKG_A, 1, "A", 1)
IT_A2  == Item(PKG_A, 2, "A", 2)
IT_B   == Item(PKG_B, 1, "B", 1)
IT_OLD == Item(PKG_OLD, 1, "O", 1)
IT_DA  == Item(DRPM_A, 1, "DA", 1)

\* str's Ord on the hrefs of the model
HrefRank(h) ==
    CASE h = DRPM_A  -> 1
      [] h = PKG_A   -> 2
      [] h = PKG_B   -> 3
      [] h = PKG_OLD -> 4
      [] OTHER       -> 5

\* the order of the BTreeSet<(&str, u64, &Checksum)>
ItemLess(a, b) ==
    \/ HrefRank(a.href) < HrefRank(b.href)
    \/ HrefRank(a.href) = HrefRank(b.href) /\ a.size < b.size

RECURSIVE SortedSeq(_)
SortedSeq(S) ==
    IF S = {} THEN <<>>
    ELSE LET m == CHOOSE x \in S : \A y \in S \ {x} : ItemLess(x, y)
         IN  <<m>> \o SortedSeq(S \ {m})

\* a decoded payload list: serde fills an absent child list with its default
MkList(pk, dl) == [packages |-> pk, deltas |-> dl]
\* Fetch::files of Metadata and of PrestoDelta
MetadataFiles(list) == SortedSeq(list.packages)
PrestoDeltaFiles(list) == SortedSeq(list.deltas)

(***************************************************************************)
(* Check modes (package.rs, CheckType and Check).                          *)
(***************************************************************************)
CheckTypes == {"CheckRemoteSize", "CheckSize", "CheckHash"}

\* sync_all's match: the Check of one work item under a CheckType
CheckOf(check, it) ==
    CASE check = "CheckRemoteSize" -> [kind |-> "RemoteSize", size |-> it.size, sum |-> it.sum]
      [] check = "CheckSize"       -> [kind |-> "Size", size |-> it.size, sum |-> it.sum]
      [] OTHER                     -> [kind |-> "Hash", size |-> it.size, sum |-> it.sum]

\* Check::Metadata, for the files of the index
CheckMetadata == [kind |-> "Metadata", size |-> 0, sum |-> [d |-> "-", n |-> 0]]

\* Checksum::check: the digest of the file against the declared one
ChecksumOk(f, sum) == f.d = sum.d /\ f.n = sum.n

\* a variant that accepts every existing live file
SkipAnyExisting(f, chk) == Exists(f)

\* sync_file, lines 261-291: an existing live file is accepted without a download
SkipExisting(f, chk) ==
    /\ Exists(f)
    /\ CASE chk.kind = "Hash" -> f.n = chk.size /\ ChecksumOk(f, chk.sum)
         [] chk.kind = "Size" -> f.n = chk.size
         [] OTHER             -> TRUE

\* a variant of the check that compares the byte count alone in every mode
PostCheckSizeOnly(download_size, f, chk) ==
    chk.kind # "Metadata" => download_size = chk.size

\* sync_file, lines 297-315: the check of a finished download
PostCheckOk(download_size, f, chk) ==
    CASE chk.kind \in {"RemoteSize", "Size"} -> download_size = chk.size
      [] chk.kind = "Hash" -> download_size = chk.size /\ ChecksumOk(f, chk.sum)
      [] OTHER             -> TRUE

(***************************************************************************)
(* The inputs of one cycle: what the remote serves and what the target     *)
(* holds before the cycle.                                                 *)
(***************************************************************************)
MkRemote(idx, pri, del) == [idx |-> idx, pri |-> pri, del |-> del]

R_ONE     == MkRemote(MkRepo(Some(2), <<Datum("primary", PRIMARY_XML)>>), {IT_A}, {})
R_DELTA   == MkRemote(MkRepo(Some(2), <<Datum("primary", PRIMARY_XML),
                                        Datum("prestodelta", DELTA_XML)>>),
                      {IT_A, IT_B}, {IT_DA})
R_OUTSIDE == MkRemote(MkRepo(Some(2), <<Datum("primary", PRIMARY_XML),
                                        Datum("other", OTHER_XML)>>), {IT_A}, {})
R_NOPRIM  == MkRemote(MkRepo(Some(2), <<Datum("other", DELTA_XML)>>), {}, {})
R_DUP     == MkRemote(MkRepo(Some(2), <<Datum("primary", PRIMARY_XML)>>), {IT_A, IT_A2}, {})
R_NOREV   == MkRemote(MkRepo(None, <<Datum("primary", PRIMARY_XML)>>), {IT_A}, {})
R_SAME    == MkRemote(MkRepo(Some(1), <<Datum("primary", PRIMARY_XML)>>), {IT_A, IT_OLD}, {})

\* an index with two data entries of type primary; the file of the second one
\* holds another list
R_TWOPRIM == MkRemote(MkRepo(Some(2), <<Datum("primary", PRIMARY_XML),
                                        Datum("primary", PRIMARY_OLD)>>), {IT_A}, {})
AltList   == {IT_B}

Remotes == {R_ONE, R_DELTA, R_OUTSIDE, R_NOPRIM, R_DUP, R_NOREV, R_SAME, R_TWOPRIM}

MetaFile(doc) == [d |-> doc, n |-> 1, w |-> FALSE]

\* the data an intact copy of the remote's file holds
RemoteDoc(repo, h) ==
    IF h = MD_PATH THEN "repomd.new"
    ELSE LET hits == {i \in 1..Len(repo.data) : repo.data[i].href = h}
             t    == repo.data[CHOOSE i \in hits : \A j \in hits : i <= j].datum
         IN  CASE t = "primary" /\ h = PRIMARY_OLD -> "primary.alt"
               [] t = "primary"     -> "primary.new"
               [] t = "prestodelta" -> "delta.new"
               [] OTHER             -> "other.new"

MkLocal(idx, pri, files, dirs) == [idx |-> idx, pri |-> pri, files |-> files, dirs |-> dirs]

FsWith(pairs) ==
    [p \in AllPaths |->
        IF \E x \in pairs : x[1] = p THEN (CHOOSE x \in pairs : x[1] = p)[2] ELSE Absent]

OldIdx(primary) == MkRepo(Some(1), <<Datum("primary", primary)>>)
OldIdxOther == MkRepo(Some(1), <<Datum("primary", PRIMARY_XML), Datum("other", OTHER_XML)>>)

\* nothing in the target
L_FRESH  == MkLocal(None, {}, EmptyFs, {})
\* no metadata, but what an attempt that failed left behind
L_LEFT   == MkLocal(None, {},
                FsWith({<<TempPath(PKG_A), [d |-> "A", n |-> 0, w |-> FALSE]>>,
                        <<PKG_OLD, Whole(IT_OLD.sum)>>}), {"p"})
\* a mirror of revision 1
L_OLD    == MkLocal(Some(OldIdx(PRIMARY_XML)), {IT_A, IT_OLD},
                FsWith({<<MD_PATH, MetaFile("repomd.old")>>,
                        <<PRIMARY_XML, MetaFile("primary.old")>>,
                        <<PKG_A, Whole(IT_A.sum)>>,
                        <<PKG_OLD, Whole(IT_OLD.sum)>>}), {MD_DIR, "p"})
\* the same with a primary file named differently from the remote's
L_HASHED == MkLocal(Some(OldIdx(PRIMARY_OLD)), {IT_A, IT_OLD},
                FsWith({<<MD_PATH, MetaFile("repomd.old")>>,
                        <<PRIMARY_OLD, MetaFile("primary.old")>>,
                        <<PKG_A, Whole(IT_A.sum)>>,
                        <<PKG_OLD, Whole(IT_OLD.sum)>>}), {MD_DIR, "p"})
\* a mirror whose package file is damaged, with a leftover temp file
L_STALE  == MkLocal(Some(OldIdx(PRIMARY_XML)), {IT_A, IT_OLD},
                FsWith({<<MD_PATH, MetaFile("repomd.old")>>,
                        <<PRIMARY_XML, MetaFile("primary.old")>>,
                        <<PKG_A, [d |-> "bad", n |-> 2, w |-> FALSE]>>,
                        <<PKG_OLD, Whole(IT_OLD.sum)>>,
                        <<TempPath(PKG_B), [d |-> "B", n |-> 0, w |-> FALSE]>>}),
                {MD_DIR, "p"})
\* a mirror whose index names a data file outside repodata/
L_OTHER  == MkLocal(Some(OldIdxOther), {IT_A, IT_OLD},
                FsWith({<<MD_PATH, MetaFile("repomd.old")>>,
                        <<PRIMARY_XML, MetaFile("primary.old")>>,
                        <<OTHER_XML, MetaFile("other.old")>>,
                        <<PKG_A, Whole(IT_A.sum)>>,
                        <<PKG_OLD, Whole(IT_OLD.sum)>>}), {MD_DIR, "p", "meta"})
\* a mirror with a directory inside repodata/
L_SUB    == MkLocal(Some(OldIdx(PRIMARY_XML)), {IT_A, IT_OLD},
                FsWith({<<MD_PATH, MetaFile("repomd.old")>>,
                        <<PRIMARY_XML, MetaFile("primary.old")>>,
                        <<PKG_A, Whole(IT_A.sum)>>,
                        <<PKG_OLD, Whole(IT_OLD.sum)>>}), {MD_DIR, "p", SUB_DIR})

\* a mirror whose index carries no revision, and whose package file has the
\* declared size with other bytes
L_NOREV  == MkLocal(Some(MkRepo(None, <<Datum("primary", PRIMARY_XML)>>)), {IT_A},
                FsWith({<<MD_PATH, MetaFile("repomd.old")>>,
                        <<PRIMARY_XML, MetaFile("primary.old")>>,
                        <<PKG_A, [d |-> "bad", n |-> IT_A.size, w |-> FALSE]>>}),
                {MD_DIR, "p"})

Locals == {L_FRESH, L_LEFT, L_OLD, L_HASHED, L_STALE, L_OTHER, L_SUB, L_NOREV}

(***************************************************************************)
(* The state of one cycle.                                                 *)
(***************************************************************************)
VARIABLES
    inp,      \* the remote, the target before the cycle and the check mode
    pc,       \* where Config::sync stands in the pair
    out,      \* how the pair ended
    local,    \* the Mirror that Mirror::local returned (its Repo, or None)
    tfs,      \* the files of the target directory
    tdirs,    \* the directories of the target directory
    cfs,      \* the files of the cache's scratch directory
    todo,     \* download_meta: the meta files still to stage
    ents,     \* the directory entries a loop still has to visit
    queue,    \* sync_all: the shared iterator over the work items
    nDone,    \* sync_all: the workers whose loop has ended
    sf,       \* the running sync_file call (the worker in it holds the queue lock)
    tfs0,     \* history: the files of the target before the cycle
    ev,       \* history: which phases have acted
    deleted,  \* history: the paths Mirror::clean removed
    drv,      \* the driver: main's loop over repositories, Config::sync's over pairs
    mux,      \* a UrlMux: its templates, its TagFieldIter and what it has yielded
    pool,     \* a sync_all call with its workers, the queue and its lock
    dl        \* a download call: its network task, its channel and its disk task

cycleVars == <<inp, pc, out, local, tfs, tdirs, cfs, todo, ents, queue, nDone, sf, tfs0, ev, deleted>>
vars == <<dl, pool, mux, drv, inp, pc, out, local, tfs, tdirs, cfs, todo, ents, queue, nDone, sf, tfs0, ev, deleted>>

\* try_join! of sync_all runs this many workers
NumWorkers == 8

\* a sync_file call: its arguments, where it stands, the body being received,
\* the bytes counted, and (history) the file at its live path when it began
NoSf == [active |-> FALSE, dest |-> "-", href |-> MD_PATH, chk |-> CheckMetadata,
         step |-> "-", body |-> [d |-> "-", n |-> 0], cnt |-> 0, pre |-> Absent]
NewCall(dest, href, chk, fs) ==
    [active |-> TRUE, dest |-> dest, href |-> href, chk |-> chk,
     step |-> "start", body |-> [d |-> "-", n |-> 0], cnt |-> 0, pre |-> fs[href]]

\* no UrlMux
NoMux == [st |-> "-"]

\* no sync_all call and no download call of their own
NoPool == [st |-> "-"]
NoDl == [st |-> "-"]

\* the driver before main's loop
DrvStart == [repo |-> 1, pair |-> 1, step |-> "remote", log |-> {}]

NoEvents == [bstart |-> FALSE, bdone |-> FALSE, cstart |-> FALSE, cdone |-> FALSE,
             dstart |-> FALSE]

Init ==
    /\ inp \in [remote : Remotes, local : Locals, check : CheckTypes]
    /\ pc = "remote"
    /\ out = "running"
    /\ local = None
    /\ tfs = inp.local.files
    /\ tdirs = inp.local.dirs
    /\ cfs = EmptyFs
    /\ todo = <<>>
    /\ ents = {}
    /\ queue = <<>>
    /\ nDone = 0
    /\ sf = NoSf
    /\ tfs0 = inp.local.files
    /\ ev = NoEvents
    /\ deleted = {}
    /\ drv = DrvStart
    /\ mux = NoMux
    /\ pool = NoPool
    /\ dl = NoDl

(***************************************************************************)
(* Decoding the files on disk.                                             *)
(***************************************************************************)
Intact(f) == Exists(f) /\ f.n = 1 /\ ~f.w

\* Repo::decode of a file: Some(repo), or None for an error
DecodeRepo(f) ==
    IF ~Intact(f) THEN None
    ELSE CASE f.d = "repomd.new" -> Some(inp.remote.idx)
           [] f.d = "repomd.old" /\ inp.local.idx.some -> Some(inp.local.idx.v)
           [] OTHER -> None

\* package::decode of a file into a payload list: Some(list), or None for an error
DecodeList(f) ==
    IF ~Intact(f) THEN None
    ELSE CASE f.d = "primary.new" -> Some(MkList(inp.remote.pri, {}))
           [] f.d = "primary.alt" -> Some(MkList(AltList, {}))
           [] f.d = "delta.new"   -> Some(MkList({}, inp.remote.del))
           [] f.d = "primary.old" -> Some(MkList(inp.local.pri, {}))
           [] f.d \in {"other.new", "other.old", "repomd.new", "repomd.old"} -> Some(MkList({}, {}))
           [] OTHER -> None

\* the bodies the server may send for a request: the file, other content, or
\* the body of a response with an HTTP failure status (download, line 363:
\* send() returns such a response as Ok and its body is streamed like any other)
BadBodies == {[d |-> "bad", n |-> k] : k \in 1..MaxBody}
ErrorBodies == {[d |-> "http500", n |-> k] : k \in 1..MaxBody}
Bodies(call) ==
    IF call.chk.kind = "Metadata"
    THEN {[d |-> RemoteDoc(inp.remote.idx, call.href), n |-> 1]} \cup BadBodies \cup ErrorBodies
    ELSE {call.chk.sum} \cup BadBodies \cup ErrorBodies

(***************************************************************************)
(* config.rs, Config::sync: the start of a pair.                           *)
(***************************************************************************)
\* a variant of Mirror::same_version that never finds two mirrors equal
NeverSame(this, other) == FALSE

\* Mirror::same_version
same_version(this, other) == RepoEq(this, other)

\* a `?`: the error leaves Cache::clone and, by the `?` of lines 57 and 66,
\* Config::sync
Fails(reason) == pc' = "done" /\ out' = reason

\* a variant of Cache::clone that drops the error of a pool and goes on to
\* replace_metadata
PoolErrorDropped == pc' = "replace" /\ out' = "err_pool"

\* try_join! returns the error of the worker (package.rs, lines 83-93), and the
\* `?` of lines 158 and 160 returns it from Cache::clone
PoolFails == Fails("err_pool")

\* try_load_mirror!(Mirror::remote, &src), line 51
LoadRemote ==
    /\ pc = "remote"
    /\ \/ pc' = "local" /\ out' = out
       \/ pc' = "done" /\ out' = "skip_remote"
    /\ UNCHANGED <<dl, pool, mux, drv, inp, local, tfs, tdirs, cfs, todo, ents, queue, nDone, sf, tfs0, ev, deleted>>

\* try_load_mirror!(Mirror::local, &dest), line 53, and Mirror::local
LoadLocal ==
    /\ pc = "local"
    /\ IF ~Exists(tfs[MD_PATH])
       THEN local' = None /\ pc' = "decide" /\ out' = out
       ELSE \/ /\ DecodeRepo(tfs[MD_PATH]).some
               /\ local' = DecodeRepo(tfs[MD_PATH])
               /\ pc' = "decide" /\ out' = out
            \/ local' = local /\ pc' = "done" /\ out' = "skip_local"
    /\ UNCHANGED <<dl, pool, mux, drv, inp, tfs, tdirs, cfs, todo, ents, queue, nDone, sf, tfs0, ev, deleted>>

\* lines 55-56 and 65: the branch, and remote.into_cache() up to its loop
Decide ==
    /\ pc = "decide"
    /\ IF local.some /\ same_version(inp.remote.idx, local.v)
       THEN pc' = "done" /\ out' = "uptodate" /\ todo' = todo
       ELSE \/ pc' = "stage" /\ out' = out /\ todo' = meta_files(inp.remote.idx)
            \/ pc' = "done" /\ out' = "err_stage" /\ todo' = todo
    /\ UNCHANGED <<dl, pool, mux, drv, inp, local, tfs, tdirs, cfs, ents, queue, nDone, sf, tfs0, ev, deleted>>

(***************************************************************************)
(* package.rs, sync_file and download.                                     *)
(***************************************************************************)
DestFs == IF sf.dest = "cache" THEN cfs ELSE tfs

PutDest(newfs) ==
    IF sf.dest = "cache" THEN cfs' = newfs /\ tfs' = tfs
    ELSE tfs' = newfs /\ cfs' = cfs

\* the call returns to download_meta (and Cache::new) or to the worker of
\* sync_all; how records the return statement taken: "skip" (lines 272, 285,
\* 289), "ok" (line 317), "err_check" (the bail! of lines 301, 307, 309) or
\* "err" (a `?`)
SfReturnAs(ok, how) ==
    /\ sf' = [sf EXCEPT !.active = FALSE, !.step = how, !.body = NoSf.body, !.cnt = 0]
    /\ IF sf.dest = "cache"
       THEN IF ok THEN todo' = Tail(todo) /\ pc' = pc /\ out' = out
            ELSE todo' = todo /\ pc' = "done" /\ out' = "err_stage"
       ELSE /\ todo' = todo
            /\ IF ok THEN pc' = pc /\ out' = out ELSE PoolFails

SfReturn(ok) == SfReturnAs(ok, IF ok THEN "ok" ELSE "err")

\* lines 257-296, up to the open of the temp file in download
SyncFileStart ==
    /\ sf.active /\ sf.step = "start"
    /\ LET f    == DestFs[sf.href]
           temp == TempPath(sf.href)
           dirs == IF sf.dest = "target" THEN tdirs \cup {sf.href.dir} ELSE tdirs
       IN  \/ /\ SkipExisting(f, sf.chk)
              /\ SfReturnAs(TRUE, "skip")
              /\ UNCHANGED <<tfs, cfs, tdirs, ev>>
           \/ \* metadata(), Checksum::check or create_dir_all fails
              /\ SfReturn(FALSE)
              /\ UNCHANGED <<tfs, cfs, tdirs, ev>>
           \/ \* the disk task cannot open the temp file
              /\ ~SkipExisting(f, sf.chk)
              /\ tdirs' = dirs
              /\ SfReturn(FALSE)
              /\ UNCHANGED <<tfs, cfs, ev>>
           \/ /\ ~SkipExisting(f, sf.chk)
              /\ tdirs' = dirs
              /\ \E body \in Bodies(sf) :
                    sf' = [sf EXCEPT !.step = "stream", !.body = body, !.cnt = 0]
              /\ PutDest([DestFs EXCEPT ![temp] = EmptyOpen])
              /\ ev' = IF sf.dest = "target" THEN [ev EXCEPT !.bstart = TRUE] ELSE ev
              /\ UNCHANGED <<pc, out, todo>>
    /\ UNCHANGED <<dl, pool, mux, drv, inp, local, ents, queue, nDone, tfs0, deleted>>

\* download, lines 381-384: the disk task writes the next chunk
SyncFileChunk ==
    /\ sf.active /\ sf.step = "stream" /\ sf.cnt < sf.body.n
    /\ PutDest([DestFs EXCEPT ![TempPath(sf.href)] =
                    [d |-> sf.body.d, n |-> sf.cnt + 1, w |-> TRUE]])
    /\ sf' = [sf EXCEPT !.cnt = sf.cnt + 1]
    /\ UNCHANGED <<dl, pool, mux, drv, inp, pc, out, local, tdirs, todo, ents, queue, nDone, tfs0, ev, deleted>>

\* download: the network task or the disk task fails; the file is closed
SyncFileAbort ==
    /\ sf.active /\ sf.step = "stream"
    /\ PutDest([DestFs EXCEPT ![TempPath(sf.href)] = [@ EXCEPT !.w = FALSE]])
    /\ SfReturn(FALSE)
    /\ UNCHANGED <<dl, pool, mux, drv, inp, local, tdirs, ents, queue, nDone, tfs0, ev, deleted>>

\* the file a writer leaves when its last chunk did not reach the disk
Short(f) ==
    IF f.n <= 1 THEN [d |-> "empty", n |-> 0, w |-> FALSE]
    ELSE [d |-> f.d, n |-> f.n - 1, w |-> FALSE]

\* download, lines 381-386: what the disk task leaves at the end of the body.
\* write_all on a tokio File returns when the chunk is handed to the blocking
\* pool, and the File is dropped without a flush: the result of the last
\* write is not seen by anyone, so the file holds every chunk or lacks the last.
LeftOnDisk(f) ==
    {[f EXCEPT !.w = FALSE]} \cup (IF f.n > 0 THEN {Short(f)} ELSE {})

\* download returns the byte count; lines 297-315 check it
SyncFileEof ==
    /\ sf.active /\ sf.step = "stream" /\ sf.cnt = sf.body.n
    /\ LET temp == TempPath(sf.href)
       IN  \E closed \in LeftOnDisk(DestFs[temp]) :
              /\ PutDest([DestFs EXCEPT ![temp] = closed])
              /\ IF PostCheckOk(sf.cnt, closed, sf.chk)
                 THEN sf' = [sf EXCEPT !.step = "rename"] /\ UNCHANGED <<pc, out, todo>>
                 ELSE SfReturnAs(FALSE, "err_check")
    /\ UNCHANGED <<dl, pool, mux, drv, inp, local, tdirs, ents, queue, nDone, tfs0, ev, deleted>>

\* the file system after rename(temp_path, local_path)
Renamed(fs, href) == [fs EXCEPT ![href] = fs[TempPath(href)], ![TempPath(href)] = Absent]

\* line 316
SyncFileRename ==
    /\ sf.active /\ sf.step = "rename"
    /\ \/ PutDest(Renamed(DestFs, sf.href)) /\ SfReturn(TRUE)
       \/ UNCHANGED <<tfs, cfs>> /\ SfReturn(FALSE)
    /\ UNCHANGED <<dl, pool, mux, drv, inp, local, tdirs, ents, queue, nDone, tfs0, ev, deleted>>

(***************************************************************************)
(* repo.rs, Cache::new and download_meta: Phase A.                         *)
(***************************************************************************)
StageNext ==
    /\ pc = "stage" /\ ~sf.active
    /\ IF todo = <<>>
       THEN pc' = "clone" /\ sf' = sf
       ELSE pc' = pc /\ sf' = NewCall("cache", Head(todo), CheckMetadata, cfs)
    /\ UNCHANGED <<dl, pool, mux, drv, inp, out, local, tfs, tdirs, cfs, todo, ents, queue, nDone, tfs0, ev, deleted>>

(***************************************************************************)
(* repo.rs, Cache::clone, and package.rs, sync_all: Phase B.               *)
(***************************************************************************)
\* line 157: self.metadata(self.dir.path()), then the pool of line 158 starts
CloneBegin ==
    /\ pc = "clone"
    /\ LET pp   == primary_path(inp.remote.idx)
           list == IF pp.some THEN DecodeList(cfs[pp.v]) ELSE None
       IN  IF list.some
           THEN queue' = MetadataFiles(list.v) /\ nDone' = 0 /\ pc' = "syncPri" /\ out' = out
           ELSE Fails("err_list") /\ UNCHANGED <<queue, nDone>>
    /\ UNCHANGED <<dl, pool, mux, drv, inp, local, tfs, tdirs, cfs, todo, ents, sf, tfs0, ev, deleted>>

InPool == pc \in {"syncPri", "syncDel"}

\* line 71: a worker locks the queue and takes the next item; the guard of the
\* lock is a temporary of the `while let` and lives until the body has ended
TakeItem ==
    /\ InPool /\ ~sf.active /\ nDone < NumWorkers /\ queue # <<>>
    /\ sf' = NewCall("target", Head(queue).href, CheckOf(inp.check, Head(queue)), tfs)
    /\ queue' = Tail(queue)
    /\ UNCHANGED <<dl, pool, mux, drv, inp, pc, out, local, tfs, tdirs, cfs, todo, ents, nDone, tfs0, ev, deleted>>

\* lines 71 and 79: a worker finds the iterator exhausted and ends with Ok
WorkerEnd ==
    /\ InPool /\ ~sf.active /\ nDone < NumWorkers /\ queue = <<>>
    /\ nDone' = nDone + 1
    /\ UNCHANGED <<dl, pool, mux, drv, inp, pc, out, local, tfs, tdirs, cfs, todo, ents, queue, sf, tfs0, ev, deleted>>

\* a variant of Cache::clone that publishes after the first pool, without the
\* pool of the deltas
JoinPrimarySkipsDeltas ==
    /\ pc = "syncPri" /\ nDone = NumWorkers
    /\ pc' = "replace"
    /\ ev' = [ev EXCEPT !.bdone = TRUE]
    /\ UNCHANGED <<dl, pool, mux, drv, inp, out, local, tfs, tdirs, cfs, todo, ents, queue, nDone, sf, tfs0, deleted>>

\* lines 158-159: the first pool returns Ok; self.prestodelta(self.dir.path())
JoinPrimary ==
    /\ pc = "syncPri" /\ nDone = NumWorkers
    /\ LET dp == prestodelta_path(inp.remote.idx)
       IN  IF ~dp.some
           THEN /\ pc' = "replace" /\ out' = out
                /\ ev' = [ev EXCEPT !.bdone = TRUE]
                /\ UNCHANGED <<queue, nDone>>
           ELSE IF DecodeList(cfs[dp.v]).some
                THEN /\ queue' = PrestoDeltaFiles(DecodeList(cfs[dp.v]).v)
                     /\ nDone' = 0 /\ pc' = "syncDel" /\ out' = out /\ ev' = ev
                ELSE Fails("err_list") /\ UNCHANGED <<queue, nDone, ev>>
    /\ UNCHANGED <<dl, pool, mux, drv, inp, local, tfs, tdirs, cfs, todo, ents, sf, tfs0, deleted>>

\* lines 160-162: the second pool returns Ok
JoinDelta ==
    /\ pc = "syncDel" /\ nDone = NumWorkers
    /\ pc' = "replace"
    /\ ev' = [ev EXCEPT !.bdone = TRUE]
    /\ UNCHANGED <<dl, pool, mux, drv, inp, out, local, tfs, tdirs, cfs, todo, ents, queue, nDone, sf, tfs0, deleted>>

(***************************************************************************)
(* repo.rs, Cache::replace_metadata: Phase C.                              *)
(***************************************************************************)
\* a directory as an entry of read_dir or WalkDir
DirEntry(d) == MkPath(d, <<>>)
IsDir(e) == e.name = <<>>

\* read_dir of repodata/ in a file system
MetaEntries(fs) == {p \in AllPaths : p.dir = MD_DIR /\ Exists(fs[p])}

\* a variant of replace_metadata that removes only the files it will overwrite
OverwrittenEntries == {e \in MetaEntries(tfs) : Exists(cfs[e])}

\* line 172: read_dir of the target repodata/
TargetMetaEntries ==
    MetaEntries(tfs) \cup (IF SUB_DIR \in tdirs THEN {DirEntry(SUB_DIR)} ELSE {})

\* lines 166-181: the target repodata/ is listed, or created
ReplaceBegin ==
    /\ pc = "replace"
    /\ \/ /\ MD_DIR \in tdirs
          /\ ents' = TargetMetaEntries
          /\ pc' = "remove" /\ out' = out
          /\ UNCHANGED <<tdirs, ev>>
       \/ /\ MD_DIR \notin tdirs
          /\ tdirs' = tdirs \cup {MD_DIR}
          /\ ents' = {}
          /\ pc' = "remove" /\ out' = out
          /\ ev' = [ev EXCEPT !.cstart = TRUE]
       \/ Fails("err_publish") /\ UNCHANGED <<tdirs, ents, ev>>
    /\ UNCHANGED <<dl, pool, mux, drv, inp, local, tfs, cfs, todo, queue, nDone, sf, tfs0, deleted>>

\* lines 173-177: remove_file of the next entry; it fails on a directory
RemoveEntry ==
    /\ pc = "remove"
    /\ \E e \in ents :
          \/ /\ ~IsDir(e)
             /\ tfs' = [tfs EXCEPT ![e] = Absent]
             /\ ents' = ents \ {e}
             /\ ev' = [ev EXCEPT !.cstart = TRUE]
             /\ pc' = pc /\ out' = out
          \/ Fails("err_publish") /\ UNCHANGED <<tfs, ents, ev>>
    /\ UNCHANGED <<dl, pool, mux, drv, inp, local, tdirs, cfs, todo, queue, nDone, sf, tfs0, deleted>>

\* line 184: the scratch repodata/ is listed
CopyBegin ==
    /\ pc = "remove" /\ ents = {}
    /\ \/ ents' = MetaEntries(cfs) /\ pc' = "copy" /\ out' = out
       \/ Fails("err_publish") /\ ents' = ents
    /\ UNCHANGED <<dl, pool, mux, drv, inp, local, tfs, tdirs, cfs, todo, queue, nDone, sf, tfs0, ev, deleted>>

\* lines 185-197: the next staged file is copied over a created or truncated file
CopyEntry ==
    /\ pc = "copy"
    /\ \E e \in ents :
          \/ /\ tfs' = [tfs EXCEPT ![e] = cfs[e]]
             /\ ents' = ents \ {e}
             /\ ev' = [ev EXCEPT !.cstart = TRUE]
             /\ pc' = pc /\ out' = out
          \/ \* the copy fails after the open
             /\ tfs' = [tfs EXCEPT ![e] = [d |-> "empty", n |-> 0, w |-> FALSE]]
             /\ ev' = [ev EXCEPT !.cstart = TRUE]
             /\ Fails("err_publish") /\ ents' = ents
          \/ Fails("err_publish") /\ UNCHANGED <<tfs, ents, ev>>
    /\ UNCHANGED <<dl, pool, mux, drv, inp, local, tdirs, cfs, todo, queue, nDone, sf, tfs0, deleted>>

\* line 199: replace_metadata and Cache::clone return Ok
ReplaceEnd ==
    /\ pc = "copy" /\ ents = {}
    /\ pc' = "clean"
    /\ ev' = [ev EXCEPT !.cdone = TRUE]
    /\ UNCHANGED <<dl, pool, mux, drv, inp, out, local, tfs, tdirs, cfs, todo, ents, queue, nDone, sf, tfs0, deleted>>

(***************************************************************************)
(* repo.rs, Mirror::clean: Phase D.                                        *)
(***************************************************************************)
\* config.rs, line 59: the mirror that is cleaned is the local mirror loaded
\* before the cycle; line 68 names a local mirror where none was loaded, and
\* the model takes the index then found in the target
CleanedRepo == IF local.some THEN local ELSE DecodeRepo(tfs[MD_PATH])

\* Mirror::metadata and Mirror::prestodelta on a base path
ListAt(fs, path) == IF path.some THEN DecodeList(fs[path.v]) ELSE None

\* lines 107-119: the set of the files to keep
KeepFiles(repo, fs) ==
    LET pri == ListAt(fs, primary_path(repo))
        del == ListAt(fs, prestodelta_path(repo))
    IN  SeqRange(meta_files(repo))
        \cup {it.href : it \in pri.v.packages}
        \cup (IF del.some THEN {it.href : it \in del.v.deltas} ELSE {})

\* WalkDir of the target
WalkEntries == {p \in AllPaths : Exists(tfs[p])} \cup {DirEntry(d) : d \in tdirs}

\* line 125
Extraneous(e, files) == ~IsDir(e) /\ e \notin files

\* lines 102-119: the lists are read from the target and the set is built
CleanBegin ==
    /\ pc = "clean"
    /\ LET m == CleanedRepo
       IN  IF /\ m.some
              /\ ListAt(tfs, primary_path(m.v)).some
              /\ prestodelta_path(m.v).some => ListAt(tfs, prestodelta_path(m.v)).some
           THEN /\ ents' = {e \in WalkEntries : Extraneous(e, KeepFiles(m.v, tfs))}
                /\ pc' = "walk" /\ out' = out
           ELSE pc' = "done" /\ out' = "err_clean" /\ ents' = ents
    /\ UNCHANGED <<dl, pool, mux, drv, inp, local, tfs, tdirs, cfs, todo, queue, nDone, sf, tfs0, ev, deleted>>

\* lines 121-130: the walk reaches the next entry to remove
CleanStep ==
    /\ pc = "walk"
    /\ \E e \in ents :
          \/ /\ ~IsDir(e)
             /\ tfs' = [tfs EXCEPT ![e] = Absent]
             /\ deleted' = deleted \cup {e}
             /\ ents' = ents \ {e}
             /\ ev' = [ev EXCEPT !.dstart = TRUE]
             /\ pc' = pc /\ out' = out
          \/ pc' = "done" /\ out' = "err_clean" /\ UNCHANGED <<tfs, deleted, ents, ev>>
    /\ UNCHANGED <<dl, pool, mux, drv, inp, local, tdirs, cfs, todo, queue, nDone, sf, tfs0>>

\* line 132
CleanEnd ==
    /\ pc = "walk" /\ ents = {}
    /\ pc' = "done" /\ out' = "ok"
    /\ UNCHANGED <<dl, pool, mux, drv, inp, local, tfs, tdirs, cfs, todo, ents, queue, nDone, sf, tfs0, ev, deleted>>

Next ==
    \/ LoadRemote \/ LoadLocal \/ Decide
    \/ StageNext
    \/ SyncFileStart \/ SyncFileChunk \/ SyncFileAbort \/ SyncFileEof \/ SyncFileRename
    \/ CloneBegin \/ TakeItem \/ WorkerEnd \/ JoinPrimary \/ JoinDelta
    \/ ReplaceBegin \/ RemoveEntry \/ CopyBegin \/ CopyEntry \/ ReplaceEnd
    \/ CleanBegin \/ CleanStep \/ CleanEnd

Spec == Init /\ [][Next]_vars

(***************************************************************************)
(* Properties of one cycle (Spec).                                         *)
(***************************************************************************)
\* the files of repodata/ in a file system
MetaDirOf(fs) == [p \in {q \in AllPaths : q.dir = MD_DIR} |-> fs[p]]

\* the work items of the cycle: the entries of the remote's payload lists
WorkItems == inp.remote.pri \cup inp.remote.del

\* the reference set of the remote index
NewRef == SeqRange(meta_files(inp.remote.idx)) \cup {it.href : it \in WorkItems}

\* the reference set of the metadata found in a file system
RefSet(fs) ==
    LET r == DecodeRepo(fs[MD_PATH])
    IN  IF ~r.some THEN {}
        ELSE LET pri == ListAt(fs, primary_path(r.v))
                 del == ListAt(fs, prestodelta_path(r.v))
             IN  SeqRange(meta_files(r.v))
                 \cup (IF pri.some THEN {it.href : it \in pri.v.packages} ELSE {})
                 \cup (IF del.some THEN {it.href : it \in del.v.deltas} ELSE {})

\* the package and delta files the metadata found in a file system advertises
Advertised(fs) == RefSet(fs) \ MetaPaths

\* C1: when a payload download of Phase B has failed, the cycle has ended with
\* that error, replace_metadata has not touched the target, and the files of
\* the target repodata/ are the files it held before the cycle.
C1_PoolFailureKeepsMetadata ==
    out = "err_pool" =>
        /\ pc = "done"
        /\ ~ev.cstart
        /\ MetaDirOf(tfs) = MetaDirOf(tfs0)
        /\ (MD_DIR \in tdirs) = (MD_DIR \in inp.local.dirs)

\* a pool failed after an earlier download had changed the target, which
\* held metadata before the cycle
C1_Witness ==
    /\ out = "err_pool"
    /\ Exists(tfs0[MD_PATH])
    /\ tfs # tfs0

\* every meta file of the remote index is staged in the scratch directory
StagedAll ==
    \A h \in SeqRange(meta_files(inp.remote.idx)) : Exists(cfs[h]) /\ ~cfs[h].w

\* no download is running or waiting and every work item has its file
PayloadsDone ==
    /\ ~sf.active
    /\ queue = <<>>
    /\ \A it \in WorkItems : Exists(tfs[it.href]) /\ ~tfs[it.href].w

\* C2: the phases of a pair are ordered: a payload download starts only when
\* every meta file is staged, the target repodata/ is written or deleted in
\* only when both pools have returned Ok with every payload in place, and the
\* cleaner deletes only after replace_metadata has returned Ok.
C2_PhasesOrdered ==
    /\ ev.bstart => StagedAll
    /\ ev.cstart => ev.bdone
    /\ (ev.bdone /\ ~ev.dstart) => PayloadsDone
    /\ ev.cdone => ev.bdone /\ StagedAll
    /\ ev.dstart => ev.cdone

\* a cycle in which downloads ran, the metadata was replaced and the cleaner
\* deleted a file
C2_Witness == ev.bstart /\ ev.cstart /\ ev.cdone /\ ev.dstart

\* the post-download check of the cycle's mode, on the file itself
Verified(f, it) ==
    /\ f.n = it.size
    /\ inp.check = "CheckHash" => f.d = it.sum.d /\ f.n = it.sum.n

\* C3: the file at the live path of every work item is absent, the file that
\* was there before the cycle, or a completely written download that passes
\* the post-download check of an item of that href.
C3_LivePathsWhole ==
    \A it \in WorkItems :
        LET f == tfs[it.href]
        IN  \/ ~Exists(f)
            \/ f = tfs0[it.href]
            \/ /\ ~f.w
               /\ \E other \in WorkItems : other.href = it.href /\ Verified(f, other)

\* C4: when sync_file has returned an error, the file at its live path is the
\* file that was there when the call began (or the path is still absent).
C4_ErrorKeepsLivePath ==
    (~sf.active /\ sf.step \in {"err", "err_check"}) =>
        (IF sf.dest = "cache" THEN cfs ELSE tfs)[sf.href] = sf.pre

\* a call into the target failed after its download had begun, with a file at
\* its live path
C4_Witness ==
    /\ ~sf.active /\ sf.step \in {"err", "err_check"} /\ sf.dest = "target"
    /\ Exists(sf.pre)
    /\ Exists(tfs[TempPath(sf.href)])

\* C5: Mirror::clean deletes no file of the reference set of the metadata
\* published in the target, and removes no directory.
C5_CleanKeepsReferenced ==
    /\ deleted \cap RefSet(cfs) = {}
    /\ inp.local.dirs \subseteq tdirs

\* C6: after a cycle that completes, every file under the target root is in
\* the reference set of the new metadata.
C6_OnlyReferencedRemain ==
    (pc = "done" /\ out = "ok") =>
        \A p \in AllPaths : Exists(tfs[p]) => p \in NewRef

\* C7: after a cycle that completes, every path of the reference set of the
\* remote index exists as a file in the target.
C7_ReferencedExist ==
    (pc = "done" /\ out = "ok") =>
        \A p \in NewRef : Exists(tfs[p])

\* C8: when replace_metadata has returned Ok (and before the cleaner deletes),
\* the files of the target repodata/ are the files of the scratch repodata/,
\* with equal content.
C8_MetadataReplaced ==
    (ev.cdone /\ ~ev.dstart) => MetaDirOf(tfs) = MetaDirOf(cfs)

\* replace_metadata returned Ok over a target whose old primary file has
\* another name than the new one
C8_Witness ==
    /\ ev.cdone /\ pc = "clean"
    /\ Exists(tfs0[PRIMARY_OLD])
    /\ Exists(tfs[PRIMARY_XML])

\* every file the metadata of a file system advertises exists in it
Consistent(fs) == \A h \in Advertised(fs) : Exists(fs[h])

\* the cycle has ended with an error
Failed ==
    /\ pc = "done"
    /\ out \in {"skip_remote", "skip_local", "err_stage", "err_list", "err_pool",
                "err_publish", "err_clean"}

\* C9: after a cycle that fails, every file advertised by the metadata then in
\* the target exists, provided this held before the cycle.
C9_FailureKeepsConsistent ==
    (Failed /\ Consistent(tfs0)) => Consistent(tfs)

\* the local mirror was loaded and carries the revision of the remote index
SameRevision ==
    /\ pc \notin {"remote", "local"}
    /\ local.some
    /\ local.v.revision.some /\ inp.remote.idx.revision.some
    /\ local.v.revision.v = inp.remote.idx.revision.v

\* nothing was staged, downloaded, replaced or deleted
Untouched ==
    /\ tfs = tfs0
    /\ tdirs = inp.local.dirs
    /\ cfs = EmptyFs
    /\ deleted = {}
    /\ ~sf.active /\ sf = NoSf
    /\ ev = NoEvents

\* C11: when the local mirror exists with the revision of the remote and the
\* mode is CheckRemoteSize, the pair is skipped: once the versions have been
\* compared the pair has ended as up to date, and nothing was staged,
\* downloaded, replaced or deleted.
C11_SameVersionSkips ==
    (SameRevision /\ inp.check = "CheckRemoteSize") =>
        /\ Untouched
        /\ pc \in {"decide", "done"}
        /\ pc = "done" => out = "uptodate"

\* a pair skipped as up to date over a target that holds a mirror
C11_Witness ==
    /\ pc = "done" /\ out = "uptodate"
    /\ inp.check = "CheckRemoteSize"
    /\ Exists(tfs[PKG_A])

\* C12: when the mode is CheckHash and the local revision equals the remote
\* revision, the pair is not skipped.
C12_HashModeNotSkipped ==
    (SameRevision /\ inp.check = "CheckHash" /\ pc = "done") => out # "uptodate"

\* C13: a response with an HTTP failure status makes the fetch fail: its body
\* is never renamed to a live path, neither of the scratch directory (Phase A,
\* Check::Metadata) nor of the target, and is never published.
C13_HttpFailureFails ==
    \A p \in LivePaths : cfs[p].d # "http500" /\ tfs[p].d # "http500"

\* C17: two indices compare equal exactly when both carry a revision and the
\* revisions are equal: the pair is skipped as up to date exactly then, and an
\* index without a revision is not equal to itself, so that the refresh goes on.
C17_EqualOnlyWithRevisions ==
    (local.some /\ pc \notin {"remote", "local", "decide"}) =>
        /\ (out = "uptodate") <=>
              /\ inp.remote.idx.revision.some /\ local.v.revision.some
              /\ inp.remote.idx.revision.v = local.v.revision.v
        /\ (~inp.remote.idx.revision.some \/ ~local.v.revision.some)
              => ~RepoEq(local.v, local.v) \/ ~RepoEq(inp.remote.idx, inp.remote.idx)

\* the remote and the local index are the same index without a revision, and
\* the cycle went on to stage the metadata
C17_Witness ==
    /\ local.some /\ local.v = inp.remote.idx
    /\ ~local.v.revision.some
    /\ pc = "stage"

\* C18: sync_file reaches the rename of the temp file only with the check of
\* the download passed: under RemoteSize and Size the byte count is the declared
\* size, under Hash the byte count is the declared size and the digest of the
\* temp file is the declared checksum, under Metadata nothing is required; a
\* call whose check failed has returned an error, and the cycle has ended with
\* the metadata of the target as it was.
C18_RenameAfterCheck ==
    /\ (sf.active /\ sf.step = "rename") =>
          LET temp == DestFs[TempPath(sf.href)]
          IN  /\ sf.chk.kind \in {"RemoteSize", "Size", "Hash"} => sf.cnt = sf.chk.size
              /\ sf.chk.kind = "Hash" => temp.d = sf.chk.sum.d /\ temp.n = sf.chk.sum.n
    /\ sf.step = "err_check" =>
          /\ ~sf.active /\ pc = "done"
          /\ out = (IF sf.dest = "cache" THEN "err_stage" ELSE "err_pool")
          /\ ~ev.cstart /\ ~ev.cdone
          /\ MetaDirOf(tfs) = MetaDirOf(tfs0)
          /\ DestFs[sf.href] = sf.pre

\* under Hash a download into the target passed the check and is about to
\* replace a file that was found unfit
C18_Witness ==
    /\ sf.active /\ sf.step = "rename"
    /\ sf.chk.kind = "Hash" /\ sf.dest = "target"
    /\ Exists(sf.pre)

\* the live file found by the call is one the spec lets it keep
Accepted ==
    /\ sf.pre.d # Absent.d
    /\ \/ sf.chk.kind \in {"RemoteSize", "Metadata"}
       \/ sf.chk.kind = "Size" /\ sf.pre.n = sf.chk.size
       \/ /\ sf.chk.kind = "Hash" /\ sf.pre.n = sf.chk.size
          /\ sf.pre.d = sf.chk.sum.d /\ sf.pre.n = sf.chk.sum.n

\* C19: sync_file returns without a download and without a write exactly when
\* the live path exists and the check is RemoteSize or Metadata, or is Size with
\* the size on disk equal to the declared one, or is Hash with the size and the
\* digest on disk equal to the declared ones: a call that skipped found such a
\* file, a call that found such a file changes no file and no directory, and a
\* call that downloaded found none.
C19_SkipIffAccepted ==
    /\ [](sf.step = "skip" => Accepted)
    /\ [](sf.step \in {"stream", "rename", "err_check", "ok"} => ~Accepted)
    /\ [][(sf.active /\ sf.step = "start" /\ Accepted) =>
             /\ sf'.step \in {"skip", "err"}
             /\ tfs' = tfs /\ cfs' = cfs /\ tdirs' = tdirs]_vars

\* under Hash a call into the target skipped a file with the declared size and
\* digest
C19_Witness ==
    /\ sf.step = "skip"
    /\ sf.chk.kind = "Hash" /\ sf.dest = "target"

\* C20: when the byte count of a download differs from the declared size under
\* RemoteSize or Size, sync_file deletes the temp file and fails: after a call
\* that failed its check in one of these modes the temp file does not exist.
C20_SizeFailureDeletesTemp ==
    (~sf.active /\ sf.step = "err_check" /\ sf.chk.kind \in {"RemoteSize", "Size"}) =>
        ~Exists((IF sf.dest = "cache" THEN cfs ELSE tfs)[TempPath(sf.href)])

\* C28: Phase C removes only the regular files of the target repodata/ and
\* does not fail on a subdirectory in it: when the entries left to the loop of
\* removals are directories, replace_metadata goes on to copy the staged files.
C28_SubdirectoryLeftAlone ==
    [][(pc = "remove" /\ ents # {} /\ \A e \in ents : IsDir(e)) =>
          pc' \in {"remove", "copy"}]_vars

\* the types of the data entries of the remote index
RemoteTypes == {inp.remote.idx.data[i].datum : i \in 1..Len(inp.remote.idx.data)}

\* C29: when the remote index has no data entry of type primary, the cycle
\* fails for the pair before any payload is downloaded and before any file of
\* the target is written or deleted; when it has several, the list of the first
\* one in document order is the work set; and an index without a prestodelta
\* entry does not fail after the pool of the packages.
C29_PrimaryRequired ==
    /\ "primary" \notin RemoteTypes =>
          /\ tfs = tfs0 /\ tdirs = inp.local.dirs /\ deleted = {}
          /\ sf.dest # "target" /\ ~ev.bstart /\ ~ev.cstart /\ ~ev.dstart
          /\ pc \in {"remote", "local", "decide", "stage", "clone", "done"}
          /\ pc = "done" => out \in {"skip_remote", "skip_local", "err_stage", "err_list"}
    /\ pc = "syncPri" =>
          /\ \A k \in 1..Len(queue) : queue[k] \in inp.remote.pri
          /\ sf.dest = "target" => \E it \in inp.remote.pri : it.href = sf.href
    /\ ("prestodelta" \notin RemoteTypes /\ out = "err_list") => nDone = 0

\* the index of the remote has no primary entry, its meta files were staged,
\* and the cycle failed on the list of packages with the target, which held a
\* mirror, as it was
C29_Witness ==
    /\ "primary" \notin RemoteTypes
    /\ pc = "done" /\ out = "err_list"
    /\ Exists(cfs[MD_PATH])
    /\ Exists(tfs0[MD_PATH]) /\ tfs = tfs0

(***************************************************************************)
(* The driver: main.rs, lines 62-68, and Config::sync, lines 41-82, with   *)
(* the result of every step of a pair left open.                           *)
(***************************************************************************)
Repos == 1..MaxRepos
Pairs == 1..MaxPairs
AllPairs == Repos \X Pairs

Logged(result) == drv.log \cup {<<drv.repo, drv.pair, result>>}

\* main.rs, lines 62-68: the next repository, whatever sync returned
NextRepo(log) ==
    IF drv.repo < MaxRepos
    THEN [repo |-> drv.repo + 1, pair |-> 1, step |-> "remote", log |-> log]
    ELSE [repo |-> drv.repo, pair |-> drv.pair, step |-> "exit", log |-> log]

\* config.rs, line 49: the loop takes the next pair, or sync returns Ok (line 81)
Continue(result) ==
    IF drv.pair < MaxPairs
    THEN [repo |-> drv.repo, pair |-> drv.pair + 1, step |-> "remote", log |-> Logged(result)]
    ELSE NextRepo(Logged(result))

\* a `?` of Config::sync: the error leaves the loop over the pairs
Propagate(result) == NextRepo(Logged(result))

\* line 51
DrvRemote ==
    /\ drv.step = "remote"
    /\ \/ drv' = [drv EXCEPT !.step = "local"]
       \/ drv' = Continue("skip_remote")
    /\ UNCHANGED <<cycleVars, mux, pool, dl>>

\* line 53
DrvLocal ==
    /\ drv.step = "local"
    /\ \/ drv' = [drv EXCEPT !.step = "version"]
       \/ drv' = [drv EXCEPT !.step = "cache"]
       \/ drv' = Continue("skip_local")
    /\ UNCHANGED <<cycleVars, mux, pool, dl>>

\* lines 55 and 60-62
DrvVersion ==
    /\ drv.step = "version"
    /\ \/ drv' = [drv EXCEPT !.step = "cache"]
       \/ drv' = Continue("uptodate")
    /\ UNCHANGED <<cycleVars, mux, pool, dl>>

\* lines 56 and 65: remote.into_cache()?
DrvCache ==
    /\ drv.step = "cache"
    /\ \/ drv' = [drv EXCEPT !.step = "clone"]
       \/ drv' = Propagate("err_stage")
    /\ UNCHANGED <<cycleVars, mux, pool, dl>>

\* lines 57 and 66: remote.replace(&local)? and remote.clone_to(&dest)?
DrvClone ==
    /\ drv.step = "clone"
    /\ \/ drv' = [drv EXCEPT !.step = "clean"]
       \/ drv' = Propagate("err_clone")
    /\ UNCHANGED <<cycleVars, mux, pool, dl>>

\* lines 59 and 68: local.clean()?
DrvClean ==
    /\ drv.step = "clean"
    /\ \/ drv' = Continue("ok")
       \/ drv' = Propagate("err_clean")
    /\ UNCHANGED <<cycleVars, mux, pool, dl>>

InitDriver ==
    /\ inp = [remote |-> R_ONE, local |-> L_FRESH, check |-> "CheckRemoteSize"]
    /\ pc = "done"
    /\ out = "running"
    /\ local = None
    /\ tfs = EmptyFs
    /\ tdirs = {}
    /\ cfs = EmptyFs
    /\ todo = <<>>
    /\ ents = {}
    /\ queue = <<>>
    /\ nDone = 0
    /\ sf = NoSf
    /\ tfs0 = EmptyFs
    /\ ev = NoEvents
    /\ deleted = {}
    /\ drv = DrvStart
    /\ mux = NoMux
    /\ pool = NoPool
    /\ dl = NoDl

NextDriver == DrvRemote \/ DrvLocal \/ DrvVersion \/ DrvCache \/ DrvClone \/ DrvClean

SpecDriver == InitDriver /\ [][NextDriver]_vars

\* the pairs the driver has begun to process
Processed == {<<x[1], x[2]>> : x \in drv.log}

\* C10: a failure of any step of a pair is isolated to that pair: when the
\* driver has ended, every pair of every configured repository was processed.
C10_AllPairsProcessed == drv.step = "exit" => Processed = AllPairs

(***************************************************************************)
(* urlmux.rs: UrlMux and TagFieldIter.  A template is a sequence of        *)
(* tokens, each a literal piece of text or a match of the tag regex        *)
(* ($name); index values are 0-based as in the source.                     *)
(***************************************************************************)
Lit(text) == [ref |-> FALSE, s |-> text]
Ref(tag) == [ref |-> TRUE, s |-> tag]

Tags == {"os", "arch"}
VariantNames(tag) ==
    IF tag = "os" THEN <<"fedora", "epel", "rhel">> ELSE <<"SRPMS", "x86_64", "i686">>

\* an entry of the TagField: a tag and its k variants
Entry(tag, k) == [tag |-> tag, variants |-> SubSeq(VariantNames(tag), 1, k)]

\* the fields in the order the HashMap happens to iterate
Fields ==
    {<<>>}
    \cup {<<Entry(t, k)>> : t \in Tags, k \in 0..MaxVariants}
    \cup {<<Entry(x[1], x[2]), Entry(x[3], x[4])>> :
            x \in {y \in Tags \X (0..MaxVariants) \X Tags \X (0..MaxVariants) : y[1] # y[3]}}

T_BOTH  == [src |-> <<Lit("src/"), Ref("os"), Lit("/"), Ref("arch")>>,
            dst |-> <<Lit("dst/"), Ref("os"), Lit("/"), Ref("arch")>>]
T_OS    == [src |-> <<Lit("src/"), Ref("os")>>, dst |-> <<Lit("dst/"), Ref("os")>>]
T_PLAIN == [src |-> <<Lit("src")>>, dst |-> <<Lit("dst")>>]
T_OTHER == [src |-> <<Lit("src/"), Ref("os"), Lit("/"), Ref("other")>>,
            dst |-> <<Lit("dst/"), Ref("os")>>]
TemplatePairs == {T_BOTH, T_OS, T_PLAIN, T_OTHER}

\* TagFieldIter::from
TagFieldIterFrom(field) ==
    [field |-> field, index |-> Some([i \in 1..Len(field) |-> 0])]

\* the loop of next_index from position i on
RECURSIVE Carry(_, _, _)
Carry(field, next, i) ==
    IF i > Len(next) THEN None
    ELSE LET bumped == [next EXCEPT ![i] = @ + 1]
         IN  IF bumped[i] = Len(field[i].variants)
             THEN Carry(field, [bumped EXCEPT ![i] = 0], i + 1)
             ELSE Some(bumped)

\* a variant of next_index without the carry into the next position
NextIndexNoCarry(it) ==
    IF it.index.some /\ Len(it.index.v) > 0
          /\ it.index.v[1] + 1 # Len(it.field[1].variants)
    THEN Some([it.index.v EXCEPT ![1] = @ + 1])
    ELSE None

\* TagFieldIter::next_index
next_index(it) == IF it.index.some THEN Carry(it.field, it.index.v, 1) ELSE None

\* next_tagset, line 124: self.field[t].1[v] panics when v is out of bounds
IndexPanics(it) ==
    /\ it.index.some
    /\ \E t \in 1..Len(it.field) : it.index.v[t] >= Len(it.field[t].variants)

\* TagFieldIter::next_tagset: the map from the tags to the variants at the index
next_tagset(it) ==
    IF ~it.index.some THEN None
    ELSE Some([tg \in {it.field[t].tag : t \in 1..Len(it.field)} |->
                  LET t == CHOOSE u \in 1..Len(it.field) : it.field[u].tag = tg
                  IN  it.field[t].variants[it.index.v[t] + 1]])

\* Replacer for &TagSet, lines 144-152: a tag that is not in the map panics
RefPanics(template, map) ==
    \E i \in 1..Len(template) : template[i].ref /\ template[i].s \notin DOMAIN map

\* Regex::replace_all with a TagSet: every match of a tag of the map becomes
\* its value; Replacer for TagSet, lines 154-163, pushes any other match as it is
replace_all(template, map) ==
    [i \in 1..Len(template) |->
        IF template[i].ref /\ template[i].s \in DOMAIN map
        THEN Lit(map[template[i].s])
        ELSE template[i]]

\* UrlMux::next, lines 39-43: `ref replacer` is a &TagSet, so replace_all
\* runs the Replacer for &TagSet
MuxYield ==
    /\ mux.st = "run"
    /\ ~IndexPanics(mux.it)
    /\ next_tagset(mux.it).some
    /\ LET map == next_tagset(mux.it).v
       IN  /\ ~RefPanics(mux.t.src, map) /\ ~RefPanics(mux.t.dst, map)
           /\ mux' = [mux EXCEPT
                        !.it.index = next_index(mux.it),
                        !.out = Append(@, [tags |-> map,
                                           src |-> replace_all(mux.t.src, map),
                                           dst |-> replace_all(mux.t.dst, map)])]
    /\ UNCHANGED <<drv, cycleVars, pool, dl>>

\* UrlMux::next, line 45: the TagFieldIter has ended
MuxEnd ==
    /\ mux.st = "run"
    /\ ~mux.it.index.some
    /\ mux' = [mux EXCEPT !.st = "end"]
    /\ UNCHANGED <<drv, cycleVars, pool, dl>>

\* a panic in next_tagset (line 124) or in the Replacer for &TagSet (line 149)
MuxPanic ==
    /\ mux.st = "run"
    /\ \/ /\ IndexPanics(mux.it)
          /\ mux' = [mux EXCEPT !.st = "panic_index"]
       \/ /\ ~IndexPanics(mux.it)
          /\ next_tagset(mux.it).some
          /\ \/ RefPanics(mux.t.src, next_tagset(mux.it).v)
             \/ RefPanics(mux.t.dst, next_tagset(mux.it).v)
          /\ mux' = [mux EXCEPT !.st = "panic_tag", !.it.index = next_index(mux.it)]
    /\ UNCHANGED <<drv, cycleVars, pool, dl>>

\* UrlMux::new over some templates and some tag map
InitMux ==
    /\ mux \in {[st |-> "run", t |-> tp, it |-> TagFieldIterFrom(f), out |-> <<>>] :
                  tp \in TemplatePairs, f \in Fields}
    /\ inp = [remote |-> R_ONE, local |-> L_FRESH, check |-> "CheckRemoteSize"]
    /\ pc = "done"
    /\ out = "running"
    /\ local = None
    /\ tfs = EmptyFs
    /\ tdirs = {}
    /\ cfs = EmptyFs
    /\ todo = <<>>
    /\ ents = {}
    /\ queue = <<>>
    /\ nDone = 0
    /\ sf = NoSf
    /\ tfs0 = EmptyFs
    /\ ev = NoEvents
    /\ deleted = {}
    /\ drv = DrvStart
    /\ pool = NoPool
    /\ dl = NoDl

NextMux == MuxYield \/ MuxEnd \/ MuxPanic

SpecMux == InitMux /\ [][NextMux]_vars

(***************************************************************************)
(* Properties of UrlMux (SpecMux).                                         *)
(***************************************************************************)
AllNonEmpty == \A i \in 1..Len(mux.it.field) : Len(mux.it.field[i].variants) > 0

RECURSIVE ProductOfSizes(_)
ProductOfSizes(field) ==
    IF field = <<>> THEN 1
    ELSE Len(Head(field).variants) * ProductOfSizes(Tail(field))

\* the tags of the map and every combination of their values
TagsOf(field) == {field[i].tag : i \in 1..Len(field)}
VariantsOfTag(field, tg) ==
    SeqRange((CHOOSE e \in SeqRange(field) : e.tag = tg).variants)
Combinations(field) ==
    {m \in [TagsOf(field) -> UNION {SeqRange(e.variants) : e \in SeqRange(field)}] :
        \A tg \in TagsOf(field) : m[tg] \in VariantsOfTag(field, tg)}

\* a template with the values of a combination in the place of its tags
Substituted(template, m) ==
    [i \in 1..Len(template) |->
        IF template[i].ref /\ template[i].s \in DOMAIN m
        THEN [ref |-> FALSE, s |-> m[template[i].s]]
        ELSE template[i]]

\* every reference of the two templates is a tag of the map
KnownRefsOnly ==
    \A t \in {mux.t.src, mux.t.dst} :
        \A i \in 1..Len(t) : t[i].ref => t[i].s \in TagsOf(mux.it.field)

C15_UnknownTagVerbatim ==
    /\ mux.st # "panic_tag"
    /\ (mux.st = "end" /\ AllNonEmpty) =>
          /\ Len(mux.out) = ProductOfSizes(mux.it.field)
          /\ \A k \in 1..Len(mux.out) : \A i \in 1..Len(mux.t.src) :
                (mux.t.src[i].ref /\ mux.t.src[i].s \notin TagsOf(mux.it.field))
                    => mux.out[k].src[i] = mux.t.src[i]

\* C16: when a tag of the map has an empty variant list, the UrlMux ends
\* normally and has yielded no pair.
C16_EmptyListYieldsNothing ==
    (mux.st # "-" /\ ~AllNonEmpty) =>
        /\ mux.st \in {"run", "end"}
        /\ mux.out = <<>>

(***************************************************************************)
(* package.rs, sync_all: the pool worker by worker.  try_join! polls the    *)
(* eight worker futures inside one task, in the order they are written; a  *)
(* worker that finds the lock taken waits in the queue of tokio's Mutex,    *)
(* which serves its waiters first come first served.                       *)
(***************************************************************************)
Workers == 1..NumWorkers

\* the work sets Fetch::files can return, in the order of the BTreeSet
PoolItems == {IT_DA, IT_A, IT_A2, IT_B}
WorkSets == {SortedSeq(S) : S \in SUBSET PoolItems}

\* the Mutex around the iterator: the worker that holds the guard (0: nobody)
\* and the workers waiting in lock()
FreeLock == [holder |-> 0, waiters |-> <<>>]

\* queue.lock().await
Acquire(lk, w) ==
    IF lk.holder = 0 THEN [lk EXCEPT !.holder = w]
    ELSE [lk EXCEPT !.waiters = Append(@, w)]

\* a variant in which the drop of the guard hands the lock to nobody
KeepLock(lk) == lk

\* the drop of the guard: the lock goes to the first waiter
Release(lk) ==
    IF lk.waiters = <<>> THEN [lk EXCEPT !.holder = 0]
    ELSE [holder |-> Head(lk.waiters), waiters |-> Tail(lk.waiters)]

\* a variant in which the guard is dropped as soon as next() has returned
GuardDroppedAtTake(lk) == Release(lk)

\* line 71: the guard is a temporary of the scrutinee of the `while let`, which
\* lives until the end of the loop body, so the lock is as it was when the body
\* begins
GuardAtTake(lk) == lk

\* a variant of the iterator that yields its item again
Stay(n) == n

\* Iterator::next on the shared iterator: the position after an item was taken
Advance(n) == n + 1

NewWorker == [pc |-> "new", item |-> 0, step |-> "-"]

\* a variant of try_join! that returns Ok as soon as one worker has ended
SomeEnded == \E w \in Workers : pool.w[w].pc = "done"

\* try_join!, lines 83-93: every worker has returned Ok
AllEnded == \A w \in Workers : pool.w[w].pc = "done"

\* the first poll of a worker: it asks for the lock
PoolArrive(w) ==
    /\ pool.st = "run"
    /\ pool.w[w].pc = "new"
    /\ \A j \in Workers : j < w => pool.w[j].pc # "new"
    /\ pool' = [pool EXCEPT !.lk = Acquire(@, w), !.w[w].pc = "wait"]
    /\ UNCHANGED <<dl, mux, drv, cycleVars>>

\* line 71: the worker has the lock and next() yields an item
PoolTake(w) ==
    /\ pool.st = "run"
    /\ pool.w[w].pc = "wait" /\ pool.lk.holder = w
    /\ pool.next <= Len(pool.items)
    /\ pool' = [pool EXCEPT !.next = Advance(@),
                            !.log = Append(@, [w |-> w, i |-> pool.next]),
                            !.w[w] = [pc |-> "file", item |-> pool.next, step |-> "start"],
                            !.lk = GuardAtTake(@)]
    /\ UNCHANGED <<dl, mux, drv, cycleVars>>

\* lines 71 and 79: next() yields None, the loop ends and the worker returns Ok
PoolWorkerEnd(w) ==
    /\ pool.st = "run"
    /\ pool.w[w].pc = "wait" /\ pool.lk.holder = w
    /\ pool.next > Len(pool.items)
    /\ pool' = [pool EXCEPT !.w[w].pc = "done", !.lk = Release(@)]
    /\ UNCHANGED <<dl, mux, drv, cycleVars>>

\* the lock after the guard of worker w has gone out of scope
Dropped(lk, w) == IF lk.holder = w THEN Release(lk) ELSE lk

\* line 77 with Ok: the body ends, the guard is dropped and the worker asks for
\* the lock again
FileOk(w) ==
    pool' = [pool EXCEPT !.res[pool.w[w].item] = "ok",
                         !.w[w] = [pc |-> "wait", item |-> 0, step |-> "-"],
                         !.lk = Acquire(Dropped(@, w), w)]

\* line 77 with Err: `?` returns the error from the worker, and try_join!
\* returns it at once and drops the other workers
FileErr(w, pending) ==
    pool' = [pool EXCEPT !.res[pool.w[w].item] = "err",
                         !.st = "err",
                         !.pend = @ \cup pending,
                         !.lk = Dropped(@, w),
                         !.w = [v \in Workers |->
                                  IF v = w THEN [pool.w[w] EXCEPT !.pc = "err"]
                                  ELSE IF pool.w[v].pc = "done" THEN pool.w[v]
                                  ELSE [pool.w[v] EXCEPT !.pc = "dropped"]]]

\* sync_file, lines 257-295
PoolFileStart(w) ==
    /\ pool.st = "run"
    /\ pool.w[w].pc = "file" /\ pool.w[w].step = "start"
    /\ \/ FileOk(w)
       \/ FileErr(w, {})
       \/ pool' = [pool EXCEPT !.w[w].step = "stream"]
    /\ UNCHANGED <<dl, mux, drv, cycleVars>>

\* sync_file, lines 296-315: download returns and the check is made; the last
\* write of the disk task (line 383) was handed to the blocking pool and may
\* still be on its way, since nothing flushes the file (lines 381-386)
PoolFileDownload(w) ==
    /\ pool.st = "run"
    /\ pool.w[w].pc = "file" /\ pool.w[w].step = "stream"
    /\ \E pending \in {{}, {TempPath(pool.items[pool.w[w].item].href)}} :
          \/ pool' = [pool EXCEPT !.w[w].step = "rename", !.pend = @ \cup pending]
          \/ FileErr(w, pending)
    /\ UNCHANGED <<dl, mux, drv, cycleVars>>

\* sync_file, lines 316-317
PoolFileRename(w) ==
    /\ pool.st = "run"
    /\ pool.w[w].pc = "file" /\ pool.w[w].step = "rename"
    /\ \/ FileOk(w)
       \/ FileErr(w, {})
    /\ UNCHANGED <<dl, mux, drv, cycleVars>>

\* try_join! returns Ok
PoolJoin ==
    /\ pool.st = "run"
    /\ AllEnded
    /\ pool' = [pool EXCEPT !.st = "ok"]
    /\ UNCHANGED <<dl, mux, drv, cycleVars>>

\* a write that was on its way in the blocking pool reaches the file
PoolLand ==
    /\ pool.st # "-"
    /\ \E p \in pool.pend : pool' = [pool EXCEPT !.pend = @ \ {p}]
    /\ UNCHANGED <<dl, mux, drv, cycleVars>>

\* the cycle, the driver and the UrlMux at rest
AtRest ==
    /\ inp = [remote |-> R_ONE, local |-> L_FRESH, check |-> "CheckRemoteSize"]
    /\ pc = "done"
    /\ out = "running"
    /\ local = None
    /\ tfs = EmptyFs
    /\ tdirs = {}
    /\ cfs = EmptyFs
    /\ todo = <<>>
    /\ ents = {}
    /\ queue = <<>>
    /\ nDone = 0
    /\ sf = NoSf
    /\ tfs0 = EmptyFs
    /\ ev = NoEvents
    /\ deleted = {}
    /\ drv = DrvStart
    /\ mux = NoMux

\* sync_all is called on some work set
InitPool ==
    /\ pool \in {[st |-> "run", items |-> ws, next |-> 1, lk |-> FreeLock,
                  w |-> [v \in Workers |-> NewWorker], log |-> <<>>,
                  res |-> [i \in 1..Len(ws) |-> "-"], pend |-> {}] : ws \in WorkSets}
    /\ dl = NoDl
    /\ AtRest

NextPool ==
    \/ \E w \in Workers :
          \/ PoolArrive(w) \/ PoolTake(w) \/ PoolWorkerEnd(w)
          \/ PoolFileStart(w) \/ PoolFileDownload(w) \/ PoolFileRename(w)
    \/ PoolJoin
    \/ PoolLand

SpecPool == InitPool /\ [][NextPool]_vars

\* the scheduler of the runtime polls a task that can make a step, and the
\* blocking pool runs the writes handed to it
SpecPoolFair == SpecPool /\ WF_vars(NextPool)

(***************************************************************************)
(* Properties of sync_all (SpecPool).                                      *)
(***************************************************************************)
\* the entries of the log for item i
TakesOf(i) == {k \in 1..Len(pool.log) : pool.log[k].i = i}

\* the workers inside sync_file
InFile == {w \in Workers : pool.w[w].pc = "file"}

\* C21: every work item of the shared iterator is taken by exactly one worker:
\* no item is taken twice, and when sync_all has returned Ok every item was
\* taken once and its sync_file has returned Ok.
C21_EachItemOnce ==
    /\ \A i \in 1..Len(pool.items) : Cardinality(TakesOf(i)) <= 1
    /\ pool.st = "ok" =>
          \A i \in 1..Len(pool.items) :
              Cardinality(TakesOf(i)) = 1 /\ pool.res[i] = "ok"

\* sync_all returned Ok on a work set of three items that two workers or more
\* have shared
C21_Witness ==
    /\ pool.st = "ok"
    /\ Len(pool.items) >= 3
    /\ Cardinality({pool.log[k].w : k \in 1..Len(pool.log)}) >= 2

\* C22: the lock of the queue is held only while a worker takes the next item:
\* no worker inside sync_file holds it.
C22_LockFreeDuringFile == \A w \in InFile : pool.lk.holder # w

\* the item a worker inside sync_file works on
ItemOf(w) == pool.items[pool.w[w].item]

\* C23: at no time do two workers of one pool write to the same path: the items
\* of any two workers that are inside sync_file at the same time differ in their
\* live paths and in their temp paths, whatever the work set.
C23_NoTwoWritersOnAPath ==
    \A w1 \in InFile : \A w2 \in InFile \ {w1} :
        /\ ItemOf(w1).href # ItemOf(w2).href
        /\ TempPath(ItemOf(w1).href) # TempPath(ItemOf(w2).href)

\* a worker is writing the temp file of an item whose live path and temp path
\* are those of another item of the work set, which another worker has
\* processed, while other workers wait for the lock
C23_Witness ==
    \E w \in InFile :
        /\ pool.w[w].step = "stream"
        /\ pool.lk.waiters # <<>>
        /\ \E k \in 1..Len(pool.log) :
              /\ pool.log[k].w # w
              /\ pool.items[pool.log[k].i].href = ItemOf(w).href

\* C24: sync_all returns an error whenever the sync_file of an item has failed,
\* and returns Ok only when all the workers have ended with the iterator
\* exhausted and every sync_file has succeeded.
C24_ErrorIffAFileFailed ==
    /\ (\E i \in 1..Len(pool.items) : pool.res[i] = "err") <=> pool.st = "err"
    /\ pool.st = "ok" =>
          /\ \A w \in Workers : pool.w[w].pc = "done"
          /\ pool.next > Len(pool.items)
          /\ \A i \in 1..Len(pool.items) : pool.res[i] = "ok"

\* sync_all returned the error of an item after another item had succeeded and
\* with items left in the iterator
C24_Witness ==
    /\ pool.st = "err"
    /\ \E i \in 1..Len(pool.items) : pool.res[i] = "ok"
    /\ pool.next <= Len(pool.items)

\* C25: once sync_all has returned an error the rest of the pool is cancelled:
\* from then on no worker takes an item, no sync_file goes on to its rename or
\* its return, and no write started by the pool reaches the target.
C25_ErrorCancelsRest ==
    [][pool.st = "err" =>
          /\ pool'.log = pool.log
          /\ pool'.w = pool.w /\ pool'.res = pool.res
          /\ pool'.pend = pool.pend]_vars

\* C26: under fair scheduling, with every sync_file call terminating, sync_all
\* eventually returns for every work set: no worker waits for the lock for ever.
C26_PoolReturns == <>(pool.st \in {"ok", "err"})

\* sync_all returned Ok after workers had waited for the lock behind the worker
\* inside sync_file
C26_Witness ==
    /\ pool.st = "ok"
    /\ Len(pool.log) >= 2
    /\ pool.lk = FreeLock

(***************************************************************************)
(* package.rs, download: the network task, the unbounded channel and the   *)
(* disk task.  A body is a number of chunks.  tokio's File hands a write   *)
(* to the blocking pool and returns; the result of that write is seen by   *)
(* the next operation on the File, if there is one.                        *)
(***************************************************************************)
\* download is called for a body of some length
InitDownload ==
    /\ dl \in {[st |-> "run", body |-> n, main |-> "disk", ret |-> 0,
                net |-> "send", sent |-> 0, chan |-> 0,
                disk |-> "open", size |-> 0, file |-> 0, op |-> "idle"] :
                  n \in 0..MaxBody}
    /\ pool = NoPool
    /\ AtRest

NetEnded == dl.net \in {"ok", "err"}
DiskEnded == dl.disk \in {"ok", "err"}

\* line 363: request.send().await?
NetSend ==
    /\ dl.net = "send"
    /\ \/ dl' = [dl EXCEPT !.net = "loop"]
       \/ dl' = [dl EXCEPT !.net = "err"]
    /\ UNCHANGED <<pool, mux, drv, cycleVars>>

\* lines 365-369: the next chunk is sent into the channel (send fails when the
\* receiver is gone), the body ends, or chunk() fails
NetChunk ==
    /\ dl.net = "loop"
    /\ \/ /\ dl.sent < dl.body
          /\ IF DiskEnded
             THEN dl' = [dl EXCEPT !.net = "err"]
             ELSE dl' = [dl EXCEPT !.sent = @ + 1, !.chan = @ + 1]
       \/ /\ dl.sent = dl.body
          /\ dl' = [dl EXCEPT !.net = "ok"]
       \/ dl' = [dl EXCEPT !.net = "err"]
    /\ UNCHANGED <<pool, mux, drv, cycleVars>>

\* lines 373-378: the temp file is created or truncated
DiskOpen ==
    /\ dl.disk = "open"
    /\ \/ dl' = [dl EXCEPT !.disk = "loop", !.file = 0]
       \/ dl' = [dl EXCEPT !.disk = "err"]
    /\ UNCHANGED <<pool, mux, drv, cycleVars>>

\* lines 381-384: a chunk is received and counted; write_all waits for the
\* write before it, returns its error if it failed, and else hands this chunk
\* to the blocking pool
DiskRecv ==
    /\ dl.disk = "loop" /\ dl.chan > 0
    /\ dl.op # "busy"
    /\ IF dl.op = "failed"
       THEN dl' = [dl EXCEPT !.chan = @ - 1, !.size = @ + 1, !.disk = "err", !.op = "idle"]
       ELSE dl' = [dl EXCEPT !.chan = @ - 1, !.size = @ + 1, !.op = "busy"]
    /\ UNCHANGED <<pool, mux, drv, cycleVars>>

\* the blocking pool runs the write: the chunk reaches the file, or the write
\* fails
DiskWriteDone ==
    /\ dl.op = "busy"
    /\ \/ dl' = [dl EXCEPT !.op = "idle", !.file = @ + 1]
       \/ dl' = [dl EXCEPT !.op = "failed"]
    /\ UNCHANGED <<pool, mux, drv, cycleVars>>

\* lines 381 and 386: the channel is empty and every sender is gone; the task
\* returns the count and the File is dropped
DiskEnd ==
    /\ dl.disk = "loop" /\ dl.chan = 0 /\ NetEnded
    /\ dl' = [dl EXCEPT !.disk = "ok"]
    /\ UNCHANGED <<pool, mux, drv, cycleVars>>

\* line 389: let size = disk.await??
DiskResult ==
    IF dl.disk = "err"
    THEN dl' = [dl EXCEPT !.main = "done", !.st = "err"]
    ELSE dl' = [dl EXCEPT !.main = "net"]

MainDisk ==
    /\ dl.st = "run" /\ dl.main = "disk" /\ DiskEnded
    /\ DiskResult
    /\ UNCHANGED <<pool, mux, drv, cycleVars>>

\* lines 390-392: network.await??, then Ok(size)
MainNet ==
    /\ dl.st = "run" /\ dl.main = "net" /\ NetEnded
    /\ IF dl.net = "err"
       THEN dl' = [dl EXCEPT !.main = "done", !.st = "err"]
       ELSE dl' = [dl EXCEPT !.main = "done", !.st = "ok", !.ret = dl.size]
    /\ UNCHANGED <<pool, mux, drv, cycleVars>>

NextDownload ==
    \/ NetSend \/ NetChunk
    \/ DiskOpen \/ DiskRecv \/ DiskWriteDone \/ DiskEnd
    \/ MainDisk \/ MainNet

SpecDownload == InitDownload /\ [][NextDownload]_vars

(***************************************************************************)
(* Properties of download (SpecDownload).                                  *)
(***************************************************************************)
\* C27: a failure on either side makes download return an error: when download
\* has returned Ok, the network task has delivered the whole body, the disk
\* task has ended without an error and no write to the temp file has failed.
C27_FailureSurfaces ==
    dl.st = "ok" =>
        /\ dl.net = "ok" /\ dl.sent = dl.body /\ dl.ret = dl.body
        /\ dl.disk = "ok"
        /\ dl.op # "failed"

====
